---- MODULE Spec2Model ----
(***************************************************************************)
(* Model of the polyhedra viewer's operation engine: the transformation   *)
(* graph of src/constants/relations.js, the polyhedron reducer of         *)
(* src/reducers/polyhedron.js and the vertex clean-up routines of         *)
(* src/math/operations/operationUtils.js.                                  *)
(*                                                                         *)
(* JavaScript values:                                                      *)
(*   - an object is an insertion-ordered sequence of [k, v] entries with   *)
(*     distinct keys;                                                      *)
(*   - a value stored under an operation is either an array or a scalar    *)
(*     (a string, null or undefined): [arr |-> BOOLEAN, items |-> Seq];    *)
(*     a scalar carries exactly one item;                                  *)
(*   - null and undefined are the items NULL and UNDEF; used as a computed *)
(*     property key they become the strings "null" and "undefined".        *)
(***************************************************************************)
EXTENDS Integers, Sequences, FiniteSets, TLC

VARIABLES
    baseGraph,      \* relations.js: the merged declared graph
    polyhedraGraph, \* relations.js: the exported bidirectional graph
    solid,      \* viewer: the solid of the current route (hyphenated name)
    lastCall,   \* viewer: the last getNextPolyhedron call and its outcome
    state,      \* reducer: the polyhedron state {name, data}
    lastAction, \* reducer: the last action dispatched, with the state before it
    graph,      \* graph building: the graph merged so far
    declared,   \* graph building: the objects merged so far, in order
    phase,      \* graph building: "building", then "normalized"
    poly,       \* geometry: the polyhedron a routine is given
    out,        \* geometry: the polyhedron the last routine returned
    pc,         \* geometry: the routines applied so far
    twist,      \* geometry: the twist the last duplicateVertices was given
    cyclic      \* utils: an array, and the last getCyclic call on it

vars == <<baseGraph, polyhedraGraph, solid, lastCall, state, lastAction, graph, declared, phase, poly, out, pc, twist, cyclic>>

----------------------------------------------------------------------------
(* JavaScript objects and values *)

NULL == "<null>"
UNDEF == "<undefined>"

Scalar(x) == [arr |-> FALSE, items |-> <<x>>]
Array(xs) == [arr |-> TRUE, items |-> xs]
Entry(key, value) == [k |-> key, v |-> value]

\* a loop over s updating an accumulated object (a sequence); each step is
\* evaluated before the next one starts, as the loop's statements are
RECURSIVE FoldLeft(_, _, _)
FoldLeft(f(_, _), acc, s) ==
    IF s = <<>> THEN acc
    ELSE IF Len(s) = 1 THEN f(acc, s[1])
    ELSE LET mid == Len(s) \div 2
             left == FoldLeft(f, acc, SubSeq(s, 1, mid))
         IN  IF Len(left) >= 0
             THEN FoldLeft(f, left, SubSeq(s, mid + 1, Len(s)))
             ELSE left

Keys(obj) == [i \in 1..Len(obj) |-> obj[i].k]
Has(obj, key) == \E i \in 1..Len(obj) : obj[i].k = key
Get(obj, key) == obj[CHOOSE i \in 1..Len(obj) : obj[i].k = key].v
\* obj[key] = value: an existing key keeps its place, a new key is appended
Put(obj, key, value) ==
    IF Has(obj, key)
    THEN [i \in 1..Len(obj) |-> IF obj[i].k = key THEN Entry(key, value) ELSE obj[i]]
    ELSE Append(obj, Entry(key, value))
\* an object literal: a repeated computed key keeps its first place, last value
ObjectLiteral(entries) == FoldLeft(LAMBDA o, e : Put(o, e.k, e.v), <<>>, entries)
\* String(x) of a scalar used as a computed property key
ToKey(x) == IF x = NULL THEN "null" ELSE IF x = UNDEF THEN "undefined" ELSE x
Truthy(x) == x \notin {NULL, UNDEF, ""}

SeqToSet(s) == {s[i] : i \in 1..Len(s)}
Compact(s) == SelectSeq(s, Truthy)

----------------------------------------------------------------------------
(* relations.js: graph merging *)

\* _.castArray
castArray(value) == IF value.arr THEN value ELSE Array(value.items)

normalize(g) ==
    [i \in 1..Len(g) |->
        Entry(g[i].k, [j \in 1..Len(g[i].v) |->
                          Entry(g[i].v[j].k, castArray(g[i].v[j].v))])]

\* customizer(objValue, srcValue): objValue.concat(srcValue) for an array
\* objValue, undefined (no result) otherwise. has = FALSE: the key is absent.
customizerApplies(has, objValue) == has /\ objValue.arr
customizer(objValue, srcValue) == Array(objValue.items \o srcValue.items)

\* _.mergeWith on one (operation, srcValue) property of an operations object
mergeValue(ops, key, srcValue) ==
    LET has == Has(ops, key)
        objValue == IF has THEN Get(ops, key) ELSE Scalar(UNDEF)
    IN  IF customizerApplies(has, objValue)
        THEN Put(ops, key, customizer(objValue, srcValue))
        ELSE IF srcValue.arr
        THEN Put(ops, key, Array(srcValue.items))      \* a fresh copy of the array
        ELSE IF srcValue.items[1] = UNDEF /\ has
        THEN ops                                       \* undefined is skipped
        ELSE Put(ops, key, srcValue)                   \* the scalar overwrites

mergeOperations(ops, srcOps) ==
    FoldLeft(LAMBDA o, e : mergeValue(o, e.k, e.v), ops, srcOps)

\* _.mergeWith on one (solid, operations) property of a graph
mergeSolid(g, key, srcOps) ==
    Put(g, key, mergeOperations(IF Has(g, key) THEN Get(g, key) ELSE <<>>, srcOps))

mergeTwo(object, source) ==
    FoldLeft(LAMBDA g, e : mergeSolid(g, e.k, e.v), object, source)

\* graphMerge(object, ...other) with other given as a sequence
graphMerge(object, other) == FoldLeft(mergeTwo, object, other)

----------------------------------------------------------------------------
(* relations.js: inverse operations and the bidirectional closure *)

\* mutant: augment and diminish are not recognised as each other's inverse
getInverseOperation_TagsAugment(operation) ==
    CASE operation \in {"d", "g"} -> operation
      [] OTHER -> "~" \o operation

\* mutant: no reversed tag is made
getInverseOperation_NoTag(operation) ==
    CASE operation = "+" -> "-"
      [] operation = "-" -> "+"
      [] OTHER -> operation

getInverseOperation(operation) ==
    CASE operation \in {"d", "g"} -> operation
      [] operation = "+" -> "-"
      [] operation = "-" -> "+"
      [] OTHER -> "~" \o operation

\* mutant: a self-loop is reversed like any other edge
reverseEdge_SelfLoop(result, source, operation, sink) ==
    IF ~Truthy(sink) THEN result
    ELSE LET r1 == IF Has(result, sink) THEN result ELSE Put(result, sink, <<>>)
             reverseOp == getInverseOperation(operation)
             ops1 == Get(r1, sink)
             ops2 == IF Has(ops1, reverseOp) THEN ops1
                     ELSE Put(ops1, reverseOp, Array(<<>>))
         IN  Put(r1, sink,
                 Put(ops2, reverseOp,
                     Array(Append(Get(ops2, reverseOp).items, source))))

\* one step of the innermost loop of makeBidirectional
reverseEdge(result, source, operation, sink) ==
    IF ~Truthy(sink) THEN result
    ELSE LET r1 == IF Has(result, sink) THEN result ELSE Put(result, sink, <<>>)
             reverseOp == getInverseOperation(operation)
             ops1 == Get(r1, sink)
             ops2 == IF Has(ops1, reverseOp) THEN ops1
                     ELSE Put(ops1, reverseOp, Array(<<>>))
         IN  IF sink = source
             THEN Put(r1, sink, ops2)
             ELSE Put(r1, sink,
                      Put(ops2, reverseOp,
                          Array(Append(Get(ops2, reverseOp).items, source))))

reverseEdges(g) ==
    FoldLeft(LAMBDA r1, n :
        FoldLeft(LAMBDA r2, e :
            FoldLeft(LAMBDA r3, sink : reverseEdge(r3, n.k, e.k, sink),
                     r2, e.v.items),
            r1, n.v),
        <<>>, g)

\* mutant: the reverse edges are left out
makeBidirectional_Forward(g) == graphMerge(<<>>, <<g>>)

makeBidirectional(g) == graphMerge(reverseEdges(g), <<g>>)

----------------------------------------------------------------------------
(* relations.js: the declared sub-graphs *)

\* `op: 'X'` and `op: ['X', 'Y']` properties, and a `solid: {...}` property
Op(operation, sink) == Entry(operation, Scalar(sink))
Ops(operation, sinks) == Entry(operation, Array(sinks))
Node(source, operations) == Entry(source, ObjectLiteral(operations))

archimedean == ObjectLiteral(<<
    Node("T",  <<Op("d", "T"), Op("t", "tT"), Op("r", "O")>>),
    Node("C",  <<Op("d", "O"), Op("t", "tC"), Op("r", "aC"), Op("e", "eC")>>),
    Node("O",  <<Op("t", "tO"), Op("r", "aC"), Op("e", "eC"), Op("s", "I")>>),
    Node("aC", <<Op("t", "bC"), Op("r", "eC"), Op("s", "sC")>>),
    Node("D",  <<Op("d", "D"), Op("t", "tD"), Op("r", "aD"), Op("e", "eD")>>),
    Node("I",  <<Op("t", "tI"), Op("r", "aD"), Op("e", "eD")>>),
    Node("aD", <<Op("t", "bD"), Op("r", "eD"), Op("s", "sD")>> )>>)

diminishedIcosahedraGraph == ObjectLiteral(<<
    Node("J63", <<Ops("+", <<"J62", "J64">>)>>),
    Node("J62", <<Op("+", "J11")>>) >>)

rhombicosidodecahedraGraph == ObjectLiteral(<<
    Node("eD",  <<Op("g", "J72"), Op("-", "J76")>>),
    Node("J72", <<Ops("g", <<"J73", "J74">>), Ops("-", <<"J76", "J77", "J78">>)>>),
    Node("J73", <<Op("-", "J77")>>),
    Node("J74", <<Op("g", "J75"), Ops("-", <<"J78", "J79">>)>>),
    Node("J75", <<Ops("-", <<"J79">>)>>),
    Node("J76", <<Ops("g", <<"J77", "J78">>), Ops("-", <<"J80", "J81">>)>>),
    Node("J77", <<Op("-", "J80")>>),
    Node("J78", <<Ops("-", <<"J81", "J82">>)>>),
    Node("J79", <<Ops("-", <<"J82">>)>>),
    Node("J81", <<Op("g", "J82"), Op("-", "J83")>>),
    Node("J82", <<Op("-", "J83")>>) >>)

othersGraph == ObjectLiteral(<<
    Node("T",   <<Op("s", "J84")>>),
    Node("A4",  <<Op("s", "J85")>>),
    Node("J86", <<Op("+", "J87")>>) >>)

----------------------------------------------------------------------------
(* constants/periodicTable: the tables relations.js reads.  A notation is  *)
(* the sequence of its parts, <<"!", "T">> for '!T'; a cell is a notation  *)
(* or an array of notations.                                               *)

Cell(name) == Scalar(<<name>>)
Bang(name) == Scalar(<<"!", name>>)
Pair(a, b) == Array(<<a.items[1], b.items[1]>>)

periodicTablePrisms == <<
    <<Cell("P3"),  Bang("O")>>,
    <<Bang("C"),   Cell("A4")>>,
    <<Cell("P5"),  Cell("A5")>>,
    <<Cell("P6"),  Cell("A6")>>,
    <<Cell("P8"),  Cell("A8")>>,
    <<Cell("P10"), Cell("A10")>> >>

periodicTablePyramidsCupolae == <<
    <<Bang("T"),  Cell("J7"),  Cell("coplanar"), Cell("J12"), Cell("J14"), Cell("concave")>>,
    <<Cell("J1"), Cell("J8"),  Cell("J10"), Bang("O"),   Cell("J15"), Cell("J17")>>,
    <<Cell("J2"), Cell("J9"),  Cell("J11"), Cell("J13"), Cell("J16"), Bang("I")>>,
    <<Bang("P3"), Cell("coplanar"), Cell("concave"),
      Pair(Cell("coplanar"), Cell("J26")), Pair(Cell("coplanar"), Cell("concave")),
      Cell("concave")>>,
    <<Cell("J3"), Cell("J18"), Cell("J22"),
      Pair(Cell("J27"), Bang("aC")), Pair(Cell("J35"), Cell("J36")), Cell("J44")>>,
    <<Cell("J4"), Cell("J19"), Cell("J23"),
      Pair(Cell("J28"), Cell("J29")), Pair(Bang("eC"), Cell("J37")), Cell("J45")>>,
    <<Cell("J5"), Cell("J20"), Cell("J24"),
      Pair(Cell("J30"), Cell("J31")), Pair(Cell("J38"), Cell("J39")), Cell("J46")>>,
    <<Cell(""),   Cell(""),    Cell(""),
      Pair(Cell("J32"), Cell("J33")), Pair(Cell("J40"), Cell("J41")), Cell("J47")>>,
    <<Cell("J6"), Cell("J21"), Cell("J25"),
      Pair(Cell("J34"), Bang("aD")), Pair(Cell("J42"), Cell("J43")), Cell("J48")>> >>

periodicTableAugmentations == <<
    <<Cell("J49"), Cell("J50"), Cell("J51")>>,
    <<Cell("J52"), Cell("J53")>>,
    <<Cell("J54"), Pair(Cell("J55"), Cell("J56")), Cell("J57")>>,
    <<Cell("J58"), Pair(Cell("J59"), Cell("J60")), Cell("J61")>>,
    <<Cell("J65")>>,
    <<Cell("J66"), Cell("J67")>>,
    <<Cell("J68"), Pair(Cell("J69"), Cell("J70")), Cell("J71")>> >>

\* periodicTable[4].rows, already in Conway notation
augmentationRowNames == <<"P3", "P5", "P6", "D", "tT", "tC", "tD">>

----------------------------------------------------------------------------
(* relations.js: the sub-graphs derived from the tables *)

invalidNames == {"concave", "coplanar"}

convertNotation(notation) ==
    IF notation[1] = "!" THEN notation[2]
    ELSE IF notation[1] \in invalidNames THEN NULL
    ELSE notation[1]

convertTableNotation(cell) ==
    IF cell.arr
    THEN Array([i \in 1..Len(cell.items) |-> convertNotation(cell.items[i])])
    ELSE Scalar(convertNotation(cell.items[1]))

convertTable(data) ==
    [r \in 1..Len(data) |-> [c \in 1..Len(data[r]) |-> convertTableNotation(data[r][c])]]

prisms == convertTable(periodicTablePrisms)
pyramidsCupolae == convertTable(periodicTablePyramidsCupolae)
augmentations == convertTable(periodicTableAugmentations)

\* row[index] of a table row, 0-based; undefined beyond the row's end
At(row, index) == IF index + 1 \in 1..Len(row) THEN row[index + 1] ELSE Scalar(UNDEF)
\* a cell used as a computed key, and the key of a scalar
CellKey(cell) == ToKey(cell.items[1])

getPyramidRow(index) == pyramidsCupolae[(IF index > 2 THEN index + 1 ELSE index) + 1]

hasCupolaRotunda(index) == index \in {6, 8}
cupolaRotunda == pyramidsCupolae[7 + 1]

\* _([a, b]).flatten().compact().value()
getAugmentations(rowIndex, colIndex) ==
    Array(Compact(
        At(pyramidsCupolae[rowIndex + 1], colIndex).items
        \o (IF hasCupolaRotunda(rowIndex) THEN At(cupolaRotunda, colIndex).items
            ELSE <<>>)))

\* the object merged for one row of prisms
prismRelations(index) ==
    LET row == prisms[index + 1]
        pyramidRow == getPyramidRow(index)
    IN  ObjectLiteral(<<
            Node(CellKey(At(row, 0)), <<Entry("+", At(pyramidRow, 1))>>),
            Node(CellKey(At(row, 1)), <<Entry("+", At(pyramidRow, 2))>>) >>)

\* the objects merged, in order, for one row of pyramidsCupolae
pyramidRelations(index) ==
    LET row == pyramidsCupolae[index + 1]
        first == ObjectLiteral(<<
            Node(CellKey(At(row, 0)), <<Entry("P", At(row, 1)), Entry("A", At(row, 2)),
                                        Entry("+", getAugmentations(index, 3))>>),
            Node(CellKey(At(row, 1)), <<Entry("+", getAugmentations(index, 4))>>),
            Node(CellKey(At(row, 2)), <<Entry("+", getAugmentations(index, 5))>>),
            Node(CellKey(At(row, 5)), <<Entry("g", At(row, 5))>>) >>)
        second ==
            IF ~At(row, 3).arr
            THEN ObjectLiteral(<<
                    Node(CellKey(At(row, 3)), <<Entry("P", At(row, 4)),
                                                Entry("A", At(row, 5))>>) >>)
            ELSE ObjectLiteral(<<
                    Node(ToKey(At(row, 3).items[1]),
                         <<Op("P", At(row, 4).items[1]), Entry("A", At(row, 5))>>),
                    Node(ToKey(At(row, 3).items[2]),
                         <<Op("P", At(row, 4).items[2]), Entry("A", At(row, 5))>>) >>)
        arrays == SelectSeq(row, LAMBDA cell : cell.arr)
        gyrate == [i \in 1..Len(arrays) |->
                      ObjectLiteral(<<Node(ToKey(arrays[i].items[1]),
                                           <<Op("g", arrays[i].items[2])>>)>>)]
    IN  <<first, second>> \o gyrate

RECURSIVE Flatten(_)
Flatten(ss) == IF ss = <<>> THEN <<>> ELSE Head(ss) \o Flatten(Tail(ss))

basePyramidsCupolae ==
    graphMerge(<<>>,
        [i \in 1..Len(prisms) |-> prismRelations(i - 1)]
        \o Flatten([i \in 1..Len(pyramidsCupolae) |-> pyramidRelations(i - 1)]))

augmentationRelations(index) ==
    LET row == augmentations[index + 1]
        base == augmentationRowNames[index + 1]
        second == IF At(row, 1).arr THEN ToKey(At(row, 1).items[2])
                  ELSE CellKey(At(row, 1))
    IN  ObjectLiteral(<<
            Node(base, <<Entry("+", At(row, 0))>>),
            Node(CellKey(At(row, 0)), <<Entry("+", At(row, 1))>>),
            Node(second, <<Entry("+", At(row, 2))>>) >>)

baseAugmentations ==
    graphMerge(<<>>, [i \in 1..Len(augmentations) |-> augmentationRelations(i - 1)])

normalized == <<
    normalize(archimedean),
    normalize(basePyramidsCupolae),
    normalize(baseAugmentations),
    normalize(diminishedIcosahedraGraph),
    normalize(rhombicosidodecahedraGraph),
    normalize(othersGraph) >>

\* the module's constants, as built when it is loaded
ModuleLoaded ==
    /\ baseGraph = graphMerge(Head(normalized), Tail(normalized))
    /\ polyhedraGraph = makeBidirectional(baseGraph)
\* a run that never reads the graph
ModuleIdle == baseGraph = <<>> /\ polyhedraGraph = <<>>
moduleVars == <<baseGraph, polyhedraGraph>>

----------------------------------------------------------------------------
(* constants/polyhedra: the catalog's two name spaces *)

\* <<Conway notation, hyphenated name>> of every solid of the catalog
solidNames == <<
    <<"T", "tetrahedron">>,
    <<"C", "cube">>,
    <<"O", "octahedron">>,
    <<"D", "dodecahedron">>,
    <<"I", "icosahedron">>,
    <<"tT", "truncated-tetrahedron">>,
    <<"aC", "cuboctahedron">>,
    <<"tC", "truncated-cube">>,
    <<"tO", "truncated-octahedron">>,
    <<"eC", "rhombicuboctahedron">>,
    <<"bC", "truncated-cuboctahedron">>,
    <<"sC", "snub-cube">>,
    <<"aD", "icosidodecahedron">>,
    <<"tD", "truncated-dodecahedron">>,
    <<"tI", "truncated-icosahedron">>,
    <<"eD", "rhombicosidodecahedron">>,
    <<"bD", "truncated-icosidodecahedron">>,
    <<"sD", "snub-dodecahedron">>,
    <<"P3", "triangular-prism">>,
    <<"P5", "pentagonal-prism">>,
    <<"P6", "hexagonal-prism">>,
    <<"P8", "octagonal-prism">>,
    <<"P10", "decagonal-prism">>,
    <<"A4", "square-antiprism">>,
    <<"A5", "pentagonal-antiprism">>,
    <<"A6", "hexagonal-antiprism">>,
    <<"A8", "octagonal-antiprism">>,
    <<"A10", "decagonal-antiprism">>,
    <<"J1", "square-pyramid">>,
    <<"J2", "pentagonal-pyramid">>,
    <<"J3", "triangular-cupola">>,
    <<"J4", "square-cupola">>,
    <<"J5", "pentagonal-cupola">>,
    <<"J6", "pentagonal-rotunda">>,
    <<"J7", "elongated-triangular-pyramid">>,
    <<"J8", "elongated-square-pyramid">>,
    <<"J9", "elongated-pentagonal-pyramid">>,
    <<"J10", "gyroelongated-square-pyramid">>,
    <<"J11", "gyroelongated-pentagonal-pyramid">>,
    <<"J12", "triangular-bipyramid">>,
    <<"J13", "pentagonal-bipyramid">>,
    <<"J14", "elongated-triangular-bipyramid">>,
    <<"J15", "elongated-square-bipyramid">>,
    <<"J16", "elongated-pentagonal-bipyramid">>,
    <<"J17", "gyroelongated-square-bipyramid">>,
    <<"J18", "elongated-triangular-cupola">>,
    <<"J19", "elongated-square-cupola">>,
    <<"J20", "elongated-pentagonal-cupola">>,
    <<"J21", "elongated-pentagonal-rotunda">>,
    <<"J22", "gyroelongated-triangular-cupola">>,
    <<"J23", "gyroelongated-square-cupola">>,
    <<"J24", "gyroelongated-pentagonal-cupola">>,
    <<"J25", "gyroelongated-pentagonal-rotunda">>,
    <<"J26", "gyrobifastigium">>,
    <<"J27", "triangular-orthobicupola">>,
    <<"J28", "square-orthobicupola">>,
    <<"J29", "square-gyrobicupola">>,
    <<"J30", "pentagonal-orthobicupola">>,
    <<"J31", "pentagonal-gyrobicupola">>,
    <<"J32", "pentagonal-orthocupolarotunda">>,
    <<"J33", "pentagonal-gyrocupolarotunda">>,
    <<"J34", "pentagonal-orthobirotunda">>,
    <<"J35", "elongated-triangular-orthobicupola">>,
    <<"J36", "elongated-triangular-gyrobicupola">>,
    <<"J37", "elongated-square-gyrobicupola">>,
    <<"J38", "elongated-pentagonal-orthobicupola">>,
    <<"J39", "elongated-pentagonal-gyrobicupola">>,
    <<"J40", "elongated-pentagonal-orthocupolarotunda">>,
    <<"J41", "elongated-pentagonal-gyrocupolarotunda">>,
    <<"J42", "elongated-pentagonal-orthobirotunda">>,
    <<"J43", "elongated-pentagonal-gyrobirotunda">>,
    <<"J44", "gyroelongated-triangular-bicupola">>,
    <<"J45", "gyroelongated-square-bicupola">>,
    <<"J46", "gyroelongated-pentagonal-bicupola">>,
    <<"J47", "gyroelongated-pentagonal-cupolarotunda">>,
    <<"J48", "gyroelongated-pentagonal-birotunda">>,
    <<"J49", "augmented-triangular-prism">>,
    <<"J50", "biaugmented-triangular-prism">>,
    <<"J51", "triaugmented-triangular-prism">>,
    <<"J52", "augmented-pentagonal-prism">>,
    <<"J53", "biaugmented-pentagonal-prism">>,
    <<"J54", "augmented-hexagonal-prism">>,
    <<"J55", "parabiaugmented-hexagonal-prism">>,
    <<"J56", "metabiaugmented-hexagonal-prism">>,
    <<"J57", "triaugmented-hexagonal-prism">>,
    <<"J58", "augmented-dodecahedron">>,
    <<"J59", "parabiaugmented-dodecahedron">>,
    <<"J60", "metabiaugmented-dodecahedron">>,
    <<"J61", "triaugmented-dodecahedron">>,
    <<"J62", "metabidiminished-icosahedron">>,
    <<"J63", "tridiminished-icosahedron">>,
    <<"J64", "augmented-tridiminished-icosahedron">>,
    <<"J65", "augmented-truncated-tetrahedron">>,
    <<"J66", "augmented-truncated-cube">>,
    <<"J67", "biaugmented-truncated-cube">>,
    <<"J68", "augmented-truncated-dodecahedron">>,
    <<"J69", "parabiaugmented-truncated-dodecahedron">>,
    <<"J70", "metabiaugmented-truncated-dodecahedron">>,
    <<"J71", "triaugmented-truncated-dodecahedron">>,
    <<"J72", "gyrate-rhombicosidodecahedron">>,
    <<"J73", "parabigyrate-rhombicosidodecahedron">>,
    <<"J74", "metabigyrate-rhombicosidodecahedron">>,
    <<"J75", "trigyrate-rhombicosidodecahedron">>,
    <<"J76", "diminished-rhombicosidodecahedron">>,
    <<"J77", "paragyrate-diminished-rhombicosidodecahedron">>,
    <<"J78", "metagyrate-diminished-rhombicosidodecahedron">>,
    <<"J79", "bigyrate-diminished-rhombicosidodecahedron">>,
    <<"J80", "parabidiminished-rhombicosidodecahedron">>,
    <<"J81", "metabidiminished-rhombicosidodecahedron">>,
    <<"J82", "gyrate-bidiminished-rhombicosidodecahedron">>,
    <<"J83", "tridiminished-rhombicosidodecahedron">>,
    <<"J84", "snub-disphenoid">>,
    <<"J85", "snub-square-antiprism">>,
    <<"J86", "sphenocorona">>,
    <<"J87", "augmented-sphenocorona">>,
    <<"J88", "sphenomegacorona">>,
    <<"J89", "hebesphenomegacorona">>,
    <<"J90", "disphenocingulum">>,
    <<"J91", "bilunabirotunda">>,
    <<"J92", "triangular-hebesphenorotunda">> >>

ConwaySolids == {solidNames[i][1] : i \in 1..Len(solidNames)}
ValidSolids == {solidNames[i][2] : i \in 1..Len(solidNames)}
NoSolid == "<no-solid>"

isValidSolid(name) == name \in ValidSolids

\* a name outside the catalog has no notation, and the other way round
toConwayNotation(name) ==
    IF \E i \in 1..Len(solidNames) : solidNames[i][2] = name
    THEN solidNames[CHOOSE i \in 1..Len(solidNames) : solidNames[i][2] = name][1]
    ELSE NoSolid

fromConwayNotation(notation) ==
    IF \E i \in 1..Len(solidNames) : solidNames[i][1] = notation
    THEN solidNames[CHOOSE i \in 1..Len(solidNames) : solidNames[i][1] = notation][2]
    ELSE NoSolid

----------------------------------------------------------------------------
(* relations.js: getNextPolyhedron *)

AmbiguousError == "Cannot deal with more than one possibility right now"
TypeError == "TypeError"

Returned(name) == [threw |-> FALSE, value |-> name]
Threw(error) == [threw |-> TRUE, value |-> error]

\* polyhedraGraph[notation][operation], the candidate list; defined only
\* where both keys exist
HasCandidates(notation, operation) ==
    Has(polyhedraGraph, notation) /\ Has(Get(polyhedraGraph, notation), operation)
Candidates(notation, operation) == Get(Get(polyhedraGraph, notation), operation).items

\* mutant: the first of several candidates is taken
getNextPolyhedron_First(name, operation) ==
    LET notation == toConwayNotation(name)
    IN  IF ~HasCandidates(notation, operation)
        THEN Threw(TypeError)
        ELSE LET next == Candidates(notation, operation)
             IN  IF Len(next) = 0 THEN Returned(fromConwayNotation(UNDEF))
                 ELSE Returned(fromConwayNotation(next[1]))

getNextPolyhedron(name, operation) ==
    LET notation == toConwayNotation(name)
    IN  IF ~HasCandidates(notation, operation)
        THEN Threw(TypeError)        \* a property of undefined is read
        ELSE LET next == Candidates(notation, operation)
             IN  IF Len(next) > 1 THEN Threw(AmbiguousError)
                 ELSE IF Len(next) = 0 THEN Returned(fromConwayNotation(UNDEF))
                 ELSE Returned(fromConwayNotation(next[1]))

----------------------------------------------------------------------------
(* reducers/polyhedron.js *)

\* the own properties of the `operations` object
operations == {"+", "-", "g"}
\* the function-valued properties every object literal inherits
objectPrototype == {"constructor", "toString", "valueOf", "hasOwnProperty"}

\* operations[operation]: the handler's name, or UNDEF
lookupOperation(operation) ==
    IF operation \in operations THEN operation
    ELSE IF operation \in objectPrototype THEN "Object.prototype." \o operation
    ELSE UNDEF

\* Polyhedron.get(name): the catalog polyhedron, with no operation applied
PolyhedronGet(name) == [solid |-> name, applied |-> <<>>]

\* augment, diminish and gyrate: a valid config yields the transformed
\* polyhedron, an invalid one leaves the polyhedron as it is
applyHandler(handler, data, config) ==
    IF handler \in operations
    THEN IF config = "valid"
         THEN [data EXCEPT !.applied = Append(@, handler)]
         ELSE data
    ELSE IF handler = "Object.prototype.constructor" THEN data  \* Object(data)
    ELSE [solid |-> handler, applied |-> <<>>]                  \* not a polyhedron

initialState == [name |-> "tetrahedron", data |-> PolyhedronGet("tetrahedron")]

\* the reducer, polyhedron(state, action)
polyhedron(st, action) ==
    CASE action.type = "SET_POLYHEDRON" ->
            IF ~isValidSolid(action.name) THEN st
            ELSE [st EXCEPT !.data = PolyhedronGet(action.name), !.name = action.name]
      [] action.type = "APPLY_OPERATION" ->
            IF lookupOperation(action.operation) = UNDEF THEN st
            ELSE [st EXCEPT
                    !.data = applyHandler(lookupOperation(action.operation),
                                          st.data, action.config),
                    !.name = action.name]
      [] OTHER -> st

setPolyhedron(name) == [type |-> "SET_POLYHEDRON", name |-> name]
applyOperation(operation, name, config) ==
    [type |-> "APPLY_OPERATION", operation |-> operation, name |-> name,
     config |-> config]

----------------------------------------------------------------------------
(* math/polyhedra and math/linAlg: the polyhedron data model.  A polyhedron *)
(* is [vertices, faces]: vertices[i + 1] is the position of the vertex of   *)
(* index i, and a face is the sequence of its vertices' indices.  Positions *)
(* lie on a line, so that two positions within the tolerance of a third     *)
(* need not be within the tolerance of each other.                          *)

PRECISION == 1

equalsWithTolerance(a, b, tolerance) ==
    (IF a >= b THEN a - b ELSE b - a) <= tolerance

Polyhedron(vertices, faces) == [vertices |-> vertices, faces |-> faces]
withFaces(p, faces) == [p EXCEPT !.faces = faces]
withVertices(p, vertices) == [p EXCEPT !.vertices = vertices]
mapFaces(p, f(_)) == [p EXCEPT !.faces = [i \in 1..Len(p.faces) |-> f(p.faces[i])]]
numVertices(p) == Len(p.vertices)
\* the indices of the vertices, in order
vertexIndices(p) == [i \in 1..Len(p.vertices) |-> i - 1]
\* v.inSet(list), on indices
inSet(v, list) == \E i \in 1..Len(list) : list[i] = v

----------------------------------------------------------------------------
(* lodash helpers of operationUtils.js *)

uniq(s) == FoldLeft(LAMBDA acc, x : IF inSet(x, acc) THEN acc ELSE Append(acc, x),
                    <<>>, s)
takeRight(s, n) == SubSeq(s, Len(s) - n + 1, Len(s))
dropRight(s, n) == SubSeq(s, 1, Len(s) - n)
\* _.get(map, key, default) on a map from indices to indices
GetOr(map, key, default) == IF key \in DOMAIN map THEN map[key] ELSE default
\* _.fromPairs: a later pair with the same key wins
fromPairs(pairs) ==
    [key \in {pairs[i][1] : i \in 1..Len(pairs)} |->
        pairs[CHOOSE i \in 1..Len(pairs) :
                /\ pairs[i][1] = key
                /\ \A j \in 1..Len(pairs) : pairs[j][1] = key => j <= i][2]]
\* _.invert: a later key with the same value wins (keys in ascending order)
invert(map) ==
    [value \in {map[key] : key \in DOMAIN map} |->
        CHOOSE key \in DOMAIN map :
            /\ map[key] = value
            /\ \A other \in DOMAIN map : map[other] = value => other <= key]

----------------------------------------------------------------------------
(* operationUtils.js: removeExtraneousVertices and deduplicateVertices *)

\* the vertices no face refers to, in index order
extraneousVertices(p) ==
    LET vertsInFaces == Flatten(p.faces)
    IN  SelectSeq(vertexIndices(p), LAMBDA v : ~inSet(v, vertsInFaces))

\* `newToOld`: each kept vertex among the last numToRemove vertices is sent
\* to one of the first removed slots
newToOldMap(p) ==
    LET toRemove == extraneousVertices(p)
        numToRemove == Len(toRemove)
        kept == SelectSeq(takeRight(vertexIndices(p), numToRemove),
                          LAMBDA v : ~inSet(v, toRemove))
    IN  fromPairs([i \in 1..Len(kept) |-> <<kept[i], toRemove[i]>>])

\* mutant: the faces keep the indices they had before the vertices moved
removeExtraneousVertices_NoRemap(p) ==
    LET numToRemove == Len(extraneousVertices(p))
        oldToNew == invert(newToOldMap(p))
    IN  withVertices(p, dropRight([i \in 1..Len(p.vertices) |->
                                      p.vertices[GetOr(oldToNew, i - 1, i - 1) + 1]],
                                  numToRemove))

removeExtraneousVertices(p) ==
    LET numToRemove == Len(extraneousVertices(p))
        newToOld == newToOldMap(p)
        oldToNew == invert(newToOld)
        newVertices ==
            dropRight([i \in 1..Len(p.vertices) |->
                          p.vertices[GetOr(oldToNew, i - 1, i - 1) + 1]],
                      numToRemove)
    IN  mapFaces(withVertices(p, newVertices),
                 LAMBDA face : [k \in 1..Len(face) |-> GetOr(newToOld, face[k], face[k])])

\* mutant: a vertex is matched against every earlier vertex, kept or not
groupVertices_AnyEarlier(p) ==
    FoldLeft(LAMBDA acc, vIndex :
                LET earlier == SubSeq(vertexIndices(p), 1, vIndex)
                    matches == SelectSeq(earlier, LAMBDA point :
                                   equalsWithTolerance(p.vertices[vIndex + 1],
                                                       p.vertices[point + 1], PRECISION))
                IN  IF matches = <<>>
                    THEN <<Append(acc[1], vIndex), Append(acc[2], vIndex)>>
                    ELSE <<acc[1], Append(acc[2], Head(matches))>>,
             <<(<<>>), (<<>>)>>, vertexIndices(p))

\* the first loop of deduplicateVertices: <<unique, oldToNew>>, unique the
\* indices kept so far and oldToNew[i + 1] the index vertex i is mapped to
groupVertices(p) ==
    FoldLeft(LAMBDA acc, vIndex :
                LET unique == acc[1]
                    matches == SelectSeq(unique, LAMBDA point :
                                   equalsWithTolerance(p.vertices[vIndex + 1],
                                                       p.vertices[point + 1], PRECISION))
                IN  IF matches = <<>>
                    THEN <<Append(unique, vIndex), Append(acc[2], vIndex)>>
                    ELSE <<unique, Append(acc[2], Head(matches))>>,
             <<(<<>>), (<<>>)>>, vertexIndices(p))

\* the faces with equal vertices replaced, and the collapsed faces dropped
mergedFaces(p) ==
    LET oldToNew == groupVertices(p)[2]
    IN  SelectSeq([i \in 1..Len(p.faces) |->
                      uniq([k \in 1..Len(p.faces[i]) |-> oldToNew[p.faces[i][k] + 1]])],
                  LAMBDA vIndices : Len(vIndices) >= 3)

deduplicateVertices(p) == removeExtraneousVertices(withFaces(p, mergedFaces(p)))

----------------------------------------------------------------------------
(* utils.ts *)

\* the % of JavaScript on integers, b > 0: the result has the sign of a
Remainder(a, b) == IF a >= 0 THEN a % b ELSE -((-a) % b)

mod(a, b) == IF a >= 0 THEN Remainder(a, b) ELSE Remainder(a, b) + b

\* array[position]: a position outside the array reads undefined
ElementAt(array, position) ==
    IF position \in 0..(Len(array) - 1) THEN array[position + 1] ELSE UNDEF

getCyclic(array, index) == ElementAt(array, mod(index, Len(array)))

\* Array(n).fill(value)
repeat(value, n) == [i \in 1..n |-> value]

----------------------------------------------------------------------------
(* operationUtils.js: duplicateVertices *)

\* the index a missing path of newVertexMapping reads as (undefined)
NoIndex == -1

\* math/Polyhedron: the faces (by index) a vertex lies on, in face order
adjacentFaces(p, v) ==
    SelectSeq([i \in 1..Len(p.faces) |-> i - 1], LAMBDA f : inSet(v, p.faces[f + 1]))

\* math/Polyhedron: the sides of a face, each from a vertex to the next
directedEdges(face) == [k \in 1..Len(face) |-> <<face[k], face[(k % Len(face)) + 1]>>]

\* math/Polyhedron: every edge once, from its lower to its higher vertex
edges(p) ==
    Flatten([f \in 1..Len(p.faces) |->
                SelectSeq(directedEdges(p.faces[f]), LAMBDA e : e[1] < e[2])])

\* the face (by index) with a side from v1 to v2
faceWithSide(p, v1, v2) ==
    LET found == SelectSeq([i \in 1..Len(p.faces) |-> i - 1],
                           LAMBDA f : inSet(<<v1, v2>>, directedEdges(p.faces[f + 1])))
    IN  IF found = <<>> THEN NoIndex ELSE Head(found)

\* math/Polyhedron: edge.adjacentFaces(): the face of the edge, then the
\* face of its twin
edgeAdjacentFaces(p, edge) ==
    <<faceWithSide(p, edge[1], edge[2]), faceWithSide(p, edge[2], edge[1])>>

\* mutant: the right twist takes the paths of the left twist
getEdgeFacePaths_LeftOnly(p, edge, twistGiven) ==
    LET v1 == edge[1]
        v2 == edge[2]
        f1 == edgeAdjacentFaces(p, edge)[1]
        f2 == edgeAdjacentFaces(p, edge)[2]
    IN  CASE twistGiven \in {"left", "right"} ->
                << <<(<<f1, v2>>), (<<f1, v1>>), (<<f2, v1>>)>>,
                   <<(<<f2, v1>>), (<<f2, v2>>), (<<f1, v2>>)>> >>
          [] OTHER ->
                << <<(<<f1, v2>>), (<<f1, v1>>), (<<f2, v1>>), (<<f2, v2>>)>> >>

getEdgeFacePaths(p, edge, twistGiven) ==
    LET v1 == edge[1]
        v2 == edge[2]
        f1 == edgeAdjacentFaces(p, edge)[1]
        f2 == edgeAdjacentFaces(p, edge)[2]
    IN  CASE twistGiven = "right" ->
                << <<(<<f1, v1>>), (<<f2, v2>>), (<<f1, v2>>)>>,
                   <<(<<f1, v1>>), (<<f2, v1>>), (<<f2, v2>>)>> >>
          [] twistGiven = "left" ->
                << <<(<<f1, v2>>), (<<f1, v1>>), (<<f2, v1>>)>>,
                   <<(<<f2, v1>>), (<<f2, v2>>), (<<f1, v2>>)>> >>
          [] OTHER ->
                << <<(<<f1, v2>>), (<<f1, v1>>), (<<f2, v1>>), (<<f2, v2>>)>> >>

\* polyhedron.getVertex().adjacentFaces().length: the faces at the first vertex
faceCount(p) == Len(adjacentFaces(p, 0))

\* the place (from 0) of x in the list s
IndexOf(x, s) == (CHOOSE i \in 1..Len(s) : s[i] = x) - 1

\* newVertexMapping[f][v] = v * count + i for the i-th adjacent face f of v;
\* as _.set does, a later assignment to the same path replaces an earlier one
newVertexMapping(p) ==
    [path \in UNION {{<<f, v>> : f \in SeqToSet(adjacentFaces(p, v))} :
                        v \in SeqToSet(vertexIndices(p))} |->
        path[2] * faceCount(p) + IndexOf(path[1], adjacentFaces(p, path[2]))]

\* _.get(newVertexMapping, path)
GetPath(mapping, path) == IF path \in DOMAIN mapping THEN mapping[path] ELSE NoIndex

\* the faces of the result that rewrite the faces of p
rewrittenFaces(p) ==
    [f \in 1..Len(p.faces) |->
        [k \in 1..Len(p.faces[f]) |-> newVertexMapping(p)[<<f - 1, p.faces[f][k]>>]]]

\* the faces added for the vertices of p: _.range(v * count, (v + 1) * count)
vertexFaces(p) ==
    [i \in 1..numVertices(p) |->
        [j \in 1..faceCount(p) |-> (i - 1) * faceCount(p) + j - 1]]

\* the faces added for one edge of p
edgeFaces(p, edge, twistGiven) ==
    LET paths == getEdgeFacePaths(p, edge, twistGiven)
    IN  [q \in 1..Len(paths) |->
            [r \in 1..Len(paths[q]) |-> GetPath(newVertexMapping(p), paths[q][r])]]

duplicateVertices(p, twistGiven) ==
    Polyhedron(
        Flatten([i \in 1..numVertices(p) |-> repeat(p.vertices[i], faceCount(p))]),
        rewrittenFaces(p)
            \o vertexFaces(p)
            \o Flatten([e \in 1..Len(edges(p)) |-> edgeFaces(p, edges(p)[e], twistGiven)]))

----------------------------------------------------------------------------
(* Bounds and input sets *)

MaxApplied == 2     \* operations applied to one polyhedron's data
MaxMerges == 3      \* objects merged into one graph
MaxTargets == 2     \* targets of one declared array
MaxVertices == 4    \* vertices of an input polyhedron
MaxFaces == 2       \* faces of an input polyhedron
MaxSides == 4       \* vertices of one face
MaxSolidFaces == 4  \* faces of a closed input polyhedron
MaxLength == 3      \* elements of an array read cyclically
MaxIndex == 7       \* indices read are -MaxIndex..MaxIndex

\* positions on a line: 0, 1 and 2 form a chain whose neighbours are within the
\* tolerance and whose ends are not; 4 is within the tolerance of none
Positions == {0, 1, 2, 4}

\* every operation symbol of the graph
GraphOperations ==
    UNION {SeqToSet(Keys(polyhedraGraph[i].v)) : i \in 1..Len(polyhedraGraph)}

\* names and symbols the reducer's actions carry
ActionNames == {"tetrahedron", "triangular-bipyramid", "truncated-tetrahedron",
                "augmented-truncated-tetrahedron", "not-a-solid"}
ActionOperations == operations \cup {"P", "t", "unknown", "toString", "constructor"}
Configs == {"valid", "invalid"}

\* the objects the graph-building loops merge: one solid, one operation
MergeSolids == {"P3", "O"}
MergeOperations == {"+", "P"}
MergeTargets == {"J7", "J26"}
MergeValues ==
    {Scalar(x) : x \in MergeTargets \cup {NULL}}
    \cup {Array(xs) : xs \in UNION {[1..n -> MergeTargets] : n \in 0..MaxTargets}}
Declarations ==
    {ObjectLiteral(<<Node(source, <<Entry(operation, value)>>)>>) :
        source \in MergeSolids, operation \in MergeOperations, value \in MergeValues}

\* the faces over n vertices: 3..MaxSides distinct indices; a face is a
\* cycle, listed from its lowest index
FacesOver(n) ==
    {f \in UNION {[1..k -> 0..(n - 1)] : k \in 3..MaxSides} :
        /\ \A i, j \in 1..Len(f) : f[i] = f[j] => i = j
        /\ \A i \in 1..Len(f) : f[1] <= f[i]}

----------------------------------------------------------------------------
(* The viewer: routes and operations resolved through the graph *)

NoCall == [solid |-> NoSolid, operation |-> "", outcome |-> Returned(NoSolid)]
NoAction == [action |-> [type |-> "@@INIT"], before |-> initialState]
NoTwist == "<none>"
\* an array no getCyclic call has read yet
NoRead(array) ==
    [array |-> array, called |-> FALSE, index |-> 0, position |-> 0, element |-> UNDEF]
NoPolyhedron == Polyhedron(<<>>, <<>>)

ViewerIdle == solid = "tetrahedron" /\ lastCall = NoCall
ReducerIdle == state = initialState /\ lastAction = NoAction
BuildIdle == graph = <<>> /\ declared = <<>> /\ phase = "building"
GeometryIdle ==
    poly = NoPolyhedron /\ out = NoPolyhedron /\ pc = "idle" /\ twist = NoTwist
UtilsIdle == cyclic = NoRead(<<>>)

viewerVars == <<solid, lastCall>>
reducerVars == <<state, lastAction>>
buildVars == <<graph, declared, phase>>
geometryVars == <<poly, out, pc, twist>>
utilsVars == <<cyclic>>

\* setup(path): the route names a solid of the catalog
Visit(name) ==
    /\ solid' = name
    /\ lastCall' = NoCall
    /\ UNCHANGED <<moduleVars, utilsVars, reducerVars, buildVars, geometryVars>>

\* an operation button: the next solid is resolved, and on success the
\* viewer moves to it
Operate(operation) ==
    LET outcome == getNextPolyhedron(solid, operation)
    IN  /\ lastCall' = [solid |-> solid, operation |-> operation, outcome |-> outcome]
        /\ solid' = IF ~outcome.threw /\ isValidSolid(outcome.value)
                    THEN outcome.value ELSE solid
        /\ UNCHANGED <<moduleVars, utilsVars, reducerVars, buildVars, geometryVars>>

Init == ModuleLoaded /\ ViewerIdle /\ ReducerIdle /\ BuildIdle /\ GeometryIdle /\ UtilsIdle

Next ==
    \/ \E name \in ValidSolids : Visit(name)
    \/ \E operation \in GraphOperations : Operate(operation)

Spec == Init /\ [][Next]_vars

----------------------------------------------------------------------------
(* The reducer under every sequence of actions *)

Dispatch(action) ==
    /\ state' = polyhedron(state, action)
    /\ lastAction' = [action |-> action, before |-> state]
    /\ UNCHANGED <<moduleVars, utilsVars, viewerVars, buildVars, geometryVars>>

SetPolyhedron(name) == Dispatch(setPolyhedron(name))

ApplyOperation(operation, name, config) ==
    /\ Len(state.data.applied) < MaxApplied
    /\ Dispatch(applyOperation(operation, name, config))

OtherAction == Dispatch([type |-> "OTHER"])

ReducerNext ==
    \/ \E name \in ActionNames : SetPolyhedron(name)
    \/ \E operation \in ActionOperations, name \in ActionNames, config \in Configs :
          ApplyOperation(operation, name, config)
    \/ OtherAction

ReducerInit == ModuleIdle /\ ViewerIdle /\ ReducerIdle /\ BuildIdle /\ GeometryIdle /\ UtilsIdle

ReducerSpec == ReducerInit /\ [][ReducerNext]_vars

----------------------------------------------------------------------------
(* Graph building: objects merged one by one, then normalized and merged *)

MergeRaw(declaration) ==
    /\ phase = "building"
    /\ Len(declared) < MaxMerges
    /\ graph' = graphMerge(graph, <<declaration>>)
    /\ declared' = Append(declared, declaration)
    /\ UNCHANGED <<phase, moduleVars, utilsVars, viewerVars, reducerVars, geometryVars>>

Normalize ==
    /\ phase = "building"
    /\ graph' = normalize(graph)
    /\ phase' = "normalized"
    /\ UNCHANGED <<declared, moduleVars, utilsVars, viewerVars, reducerVars, geometryVars>>

MergeNormalized(declaration) ==
    /\ phase = "normalized"
    /\ Len(declared) < MaxMerges
    /\ graph' = graphMerge(graph, <<normalize(declaration)>>)
    /\ declared' = Append(declared, declaration)
    /\ UNCHANGED <<phase, moduleVars, utilsVars, viewerVars, reducerVars, geometryVars>>

MergeNext ==
    \/ \E declaration \in Declarations : MergeRaw(declaration)
    \/ Normalize
    \/ \E declaration \in Declarations : MergeNormalized(declaration)

MergeSpec == ReducerInit /\ [][MergeNext]_vars

----------------------------------------------------------------------------
(* Geometry: the clean-up routines on every small polyhedron *)

\* an input polyhedron is built vertex by vertex, then face by face
AddVertex(position) ==
    /\ pc = "idle"
    /\ poly.faces = <<>>
    /\ Len(poly.vertices) < MaxVertices
    /\ poly' = withVertices(poly, Append(poly.vertices, position))
    /\ UNCHANGED <<out, pc, twist, moduleVars, utilsVars, viewerVars, reducerVars, buildVars>>

AddFace(face) ==
    /\ face \in FacesOver(numVertices(poly))
    /\ poly' = withFaces(poly, Append(poly.faces, face))
    /\ UNCHANGED <<out, pc, twist, moduleVars, utilsVars, viewerVars, reducerVars, buildVars>>

RemoveExtraneous ==
    /\ pc = "idle" /\ poly.faces # <<>>
    /\ out' = removeExtraneousVertices(poly)
    /\ pc' = "removed"
    /\ UNCHANGED <<poly, twist, moduleVars, utilsVars, viewerVars, reducerVars, buildVars>>

Deduplicate ==
    /\ pc = "idle" /\ poly.faces # <<>>
    /\ out' = deduplicateVertices(poly)
    /\ pc' = "deduplicated"
    /\ UNCHANGED <<poly, twist, moduleVars, utilsVars, viewerVars, reducerVars, buildVars>>

DeduplicateAgain ==
    /\ pc = "deduplicated"
    /\ out' = deduplicateVertices(out)
    /\ pc' = "deduplicated twice"
    /\ UNCHANGED <<poly, twist, moduleVars, utilsVars, viewerVars, reducerVars, buildVars>>

GeometryNext ==
    \/ \E position \in Positions : AddVertex(position)
    \/ /\ pc = "idle"
       /\ Len(poly.faces) < MaxFaces
       /\ \E face \in FacesOver(numVertices(poly)) : AddFace(face)
    \/ RemoveExtraneous
    \/ Deduplicate
    \/ DeduplicateAgain

GeometrySpec == ReducerInit /\ [][GeometryNext]_vars

----------------------------------------------------------------------------
(* Geometry: duplicateVertices on every small closed polyhedron *)

Twists == {NoTwist, "left", "right"}

\* the sides the faces of p have, each with its direction
usedSides(p) == UNION {SeqToSet(directedEdges(p.faces[f])) : f \in 1..Len(p.faces)}

\* a polyhedron: every vertex lies on a face, and every side of a face is a
\* side of another face in the opposite direction
Closed(p) ==
    /\ p.faces # <<>>
    /\ \A v \in SeqToSet(vertexIndices(p)) : adjacentFaces(p, v) # <<>>
    /\ \A side \in usedSides(p) : <<side[2], side[1]>> \in usedSides(p)

\* the next vertex, at a position of its own
PlaceVertex == AddVertex(numVertices(poly))

\* the next face: no side of it is already the side, in that direction, of
\* another face
AttachFace(face) ==
    /\ pc = "idle"
    /\ Len(poly.faces) < MaxSolidFaces
    /\ SeqToSet(directedEdges(face)) \cap usedSides(poly) = {}
    /\ AddFace(face)

Duplicate(twistGiven) ==
    /\ pc = "idle"
    /\ Closed(poly)
    /\ out' = duplicateVertices(poly, twistGiven)
    /\ twist' = twistGiven
    /\ pc' = "duplicated"
    /\ UNCHANGED <<poly, moduleVars, utilsVars, viewerVars, reducerVars, buildVars>>

DuplicateNext ==
    \/ PlaceVertex
    \/ \E face \in FacesOver(numVertices(poly)) : AttachFace(face)
    \/ \E twistGiven \in Twists : Duplicate(twistGiven)

DuplicateSpec == ReducerInit /\ [][DuplicateNext]_vars

----------------------------------------------------------------------------
(* utils.ts: getCyclic on every small array *)

Elements == {"a", "b"}

Push(element) ==
    /\ Len(cyclic.array) < MaxLength
    /\ cyclic' = NoRead(Append(cyclic.array, element))
    /\ UNCHANGED <<moduleVars, viewerVars, reducerVars, buildVars, geometryVars>>

GetCyclic(index) ==
    /\ cyclic.array # <<>>
    /\ cyclic' = [array |-> cyclic.array, called |-> TRUE, index |-> index,
                  position |-> mod(index, Len(cyclic.array)),
                  element |-> getCyclic(cyclic.array, index)]
    /\ UNCHANGED <<moduleVars, viewerVars, reducerVars, buildVars, geometryVars>>

UtilsNext ==
    \/ \E element \in Elements : Push(element)
    \/ \E index \in (-MaxIndex)..MaxIndex : GetCyclic(index)

UtilsSpec == ReducerInit /\ [][UtilsNext]_vars

----------------------------------------------------------------------------
(* Properties of the transformation graph *)

\* the inverse operation as the closure is described: dual and gyrate are
\* their own inverse, augment and diminish each other's, any other
\* operation's inverse is its reversed tag
ReverseTag(operation) ==
    CASE operation = "d" -> "d"
      [] operation = "g" -> "g"
      [] operation = "+" -> "-"
      [] operation = "-" -> "+"
      [] OTHER -> "~" \o operation

\* source --operation--> sink is an edge of polyhedraGraph
IsEdge(source, operation, sink) ==
    /\ HasCandidates(source, operation)
    /\ inSet(sink, Candidates(source, operation))

\* the operations some sub-graph declares
DeclaredOperations ==
    UNION {SeqToSet(Keys(baseGraph[i].v)) : i \in 1..Len(baseGraph)}

Called == lastCall # NoCall
CalledWith(name, operation) ==
    Called /\ lastCall.solid = name /\ lastCall.operation = operation
\* the last call returned a solid of the catalog other than the one it was given
Moved ==
    /\ Called
    /\ ~lastCall.outcome.threw
    /\ isValidSolid(lastCall.outcome.value)
    /\ lastCall.outcome.value # lastCall.solid

\* C1: every declared edge source --op--> sink of baseGraph is an edge of
\* polyhedraGraph, and when the sink is non-null and differs from the source,
\* polyhedraGraph lists the source among polyhedraGraph[sink][inverse of op].
C1_InverseEdges ==
    \A i \in 1..Len(baseGraph) :
        \A j \in 1..Len(baseGraph[i].v) :
            \A k \in 1..Len(baseGraph[i].v[j].v.items) :
                LET source == baseGraph[i].k
                    operation == baseGraph[i].v[j].k
                    sink == baseGraph[i].v[j].v.items[k]
                IN  /\ IsEdge(source, operation, sink)
                    /\ (Truthy(sink) /\ sink # source)
                          => IsEdge(sink, ReverseTag(operation), source)

\* a generated reverse edge has been followed: rectify is declared from the
\* tetrahedron to the octahedron, and the octahedron is taken back
C1_Witness ==
    /\ CalledWith("octahedron", "~r")
    /\ lastCall.outcome = Returned("tetrahedron")
    /\ solid = "tetrahedron"

\* C2: a call that finds exactly one candidate returns it under its
\* hyphenated name; a call that finds more than one raises the ambiguity
\* error and returns no name, as gyrate and diminish on J72 do.
C2_SingleOrRaise ==
    /\ (Called /\ HasCandidates(toConwayNotation(lastCall.solid), lastCall.operation))
          => LET next == Candidates(toConwayNotation(lastCall.solid), lastCall.operation)
             IN  /\ Len(next) = 1 =>
                        /\ lastCall.outcome = Returned(fromConwayNotation(next[1]))
                        /\ next[1] \in ConwaySolids =>
                              /\ isValidSolid(lastCall.outcome.value)
                              /\ toConwayNotation(lastCall.outcome.value) = next[1]
                 /\ Len(next) > 1 => lastCall.outcome = Threw(AmbiguousError)
    /\ CalledWith("gyrate-rhombicosidodecahedron", "g")
          => /\ {"J73", "J74"} \subseteq SeqToSet(Candidates("J72", "g"))
             /\ lastCall.outcome.threw
    /\ CalledWith("gyrate-rhombicosidodecahedron", "-")
          => /\ {"J76", "J77", "J78"} \subseteq SeqToSet(Candidates("J72", "-"))
             /\ lastCall.outcome.threw

C2_Witness ==
    /\ CalledWith("gyrate-rhombicosidodecahedron", "g")
    /\ lastCall.outcome = Threw(AmbiguousError)
    /\ solid = "gyrate-rhombicosidodecahedron"

\* C3 as stated: whenever an operation takes a solid to another solid, the
\* inverse operation resolves from that solid back to the first.
C3_Original ==
    Moved => getNextPolyhedron(lastCall.outcome.value,
                               getInverseOperation(lastCall.operation))
                = Returned(lastCall.solid)

\* C3, amended: whenever a declared operation (not a reversed tag) takes a
\* solid s to another solid s', s is among the candidates of the inverse
\* operation on s'; the inverse resolves back to s when s is the only
\* candidate and raises the ambiguity error otherwise.  Augment then diminish
\* on the tetrahedron, and on the square pyramid, lead back.
C3_Reversible ==
    /\ (Moved /\ lastCall.operation \in DeclaredOperations)
          => LET back == toConwayNotation(lastCall.outcome.value)
                 inverse == getInverseOperation(lastCall.operation)
                 again == getNextPolyhedron(lastCall.outcome.value, inverse)
             IN  /\ IsEdge(back, inverse, toConwayNotation(lastCall.solid))
                 /\ Len(Candidates(back, inverse)) = 1 => again = Returned(lastCall.solid)
                 /\ Len(Candidates(back, inverse)) > 1 => again = Threw(AmbiguousError)
    /\ CalledWith("tetrahedron", "+")
          => /\ lastCall.outcome = Returned("triangular-bipyramid")
             /\ getNextPolyhedron("triangular-bipyramid", "-") = Returned("tetrahedron")
    /\ CalledWith("square-pyramid", "+")
          => /\ lastCall.outcome = Returned("octahedron")
             /\ getNextPolyhedron("octahedron", "-") = Returned("square-pyramid")

C3_Witness ==
    /\ CalledWith("tetrahedron", "+")
    /\ Moved
    /\ solid = "triangular-bipyramid"

\* C6: from the tetrahedron, truncate, cumulate (the reverse of truncate),
\* rectify and rectify resolve, one candidate each, to the truncated
\* tetrahedron, the tetrahedron, the octahedron and the cuboctahedron.
C6_Workflow ==
    /\ CalledWith("tetrahedron", "t")
          => /\ Len(Candidates("T", "t")) = 1
             /\ lastCall.outcome = Returned("truncated-tetrahedron")
    /\ CalledWith("truncated-tetrahedron", "~t")
          => /\ Len(Candidates("tT", "~t")) = 1
             /\ lastCall.outcome = Returned("tetrahedron")
    /\ CalledWith("tetrahedron", "r")
          => /\ Len(Candidates("T", "r")) = 1
             /\ lastCall.outcome = Returned("octahedron")
    /\ CalledWith("octahedron", "r")
          => /\ Len(Candidates("O", "r")) = 1
             /\ lastCall.outcome = Returned("cuboctahedron")
    /\ solid = "tetrahedron"
          => LET s1 == getNextPolyhedron(solid, "t")
                 s2 == getNextPolyhedron(s1.value, "~t")
                 s3 == getNextPolyhedron(s2.value, "r")
                 s4 == getNextPolyhedron(s3.value, "r")
             IN  <<s1, s2, s3, s4>> =
                     <<Returned("truncated-tetrahedron"), Returned("tetrahedron"),
                       Returned("octahedron"), Returned("cuboctahedron")>>

C6_Witness ==
    /\ CalledWith("octahedron", "r")
    /\ solid = "cuboctahedron"

\* C10 as stated: snub on the tetrahedron resolves to the icosahedron.
C10_SnubTetrahedron ==
    CalledWith("tetrahedron", "s") => lastCall.outcome = Returned("icosahedron")

\* how often x occurs in the list s
Count(x, s) == Cardinality({i \in 1..Len(s) : s[i] = x})

\* C11: for every declared self-loop X --op--> X under dual or gyrate,
\* polyhedraGraph[X][op] holds X exactly once and is not empty; dual on the
\* tetrahedron returns the tetrahedron and does not raise.
C11_SelfLoops ==
    /\ \A i \in 1..Len(baseGraph) :
          \A j \in 1..Len(baseGraph[i].v) :
              LET source == baseGraph[i].k
                  operation == baseGraph[i].v[j].k
              IN  (/\ operation \in {"d", "g"}
                   /\ Truthy(source)
                   /\ inSet(source, baseGraph[i].v[j].v.items))
                      => /\ HasCandidates(source, operation)
                         /\ Candidates(source, operation) # <<>>
                         /\ Count(source, Candidates(source, operation)) = 1
    /\ Candidates("T", "d") = <<"T">>
    /\ Candidates("D", "d") = <<"D">>
    /\ CalledWith("tetrahedron", "d") => lastCall.outcome = Returned("tetrahedron")

C11_Witness ==
    /\ CalledWith("tetrahedron", "d")
    /\ ~lastCall.outcome.threw
    /\ solid = "tetrahedron"

\* the reversed tags of a set of operations
ReversedTags(declaredOperations) ==
    {"~" \o operation : operation \in declaredOperations}

\* C16 as stated: for every edge A --op--> B of polyhedraGraph with A
\* different from B, polyhedraGraph contains B --getInverseOperation(op)--> A.
C16_Original ==
    \A i \in 1..Len(polyhedraGraph) :
        \A j \in 1..Len(polyhedraGraph[i].v) :
            \A k \in 1..Len(polyhedraGraph[i].v[j].v.items) :
                LET a == polyhedraGraph[i].k
                    operation == polyhedraGraph[i].v[j].k
                    b == polyhedraGraph[i].v[j].v.items[k]
                IN  (Truthy(b) /\ a # b)
                        => IsEdge(b, getInverseOperation(operation), a)

\* C16, amended: for every edge A --op--> B of polyhedraGraph with A
\* different from B: when op is a declared operation, polyhedraGraph contains
\* B --inverse(op)--> A; when op is a reversed tag ~o, polyhedraGraph contains
\* the declared edge B --o--> A, and getInverseOperation(op) is ~~o, which is
\* no operation of the graph.  getInverseOperation undoes itself on d, g, +
\* and - only.
C16_Symmetric ==
    LET declaredOperations == DeclaredOperations
        tags == ReversedTags(declaredOperations) \ declaredOperations
    IN  /\ \A i \in 1..Len(polyhedraGraph) :
              \A j \in 1..Len(polyhedraGraph[i].v) :
                  \A k \in 1..Len(polyhedraGraph[i].v[j].v.items) :
                      LET a == polyhedraGraph[i].k
                          operation == polyhedraGraph[i].v[j].k
                          b == polyhedraGraph[i].v[j].v.items[k]
                      IN  (Truthy(b) /\ a # b) =>
                            /\ operation \in declaredOperations \cup tags
                            /\ operation \in declaredOperations
                                  => IsEdge(b, ReverseTag(operation), a)
                            /\ operation \in tags
                                  => /\ \E o \in declaredOperations :
                                          /\ "~" \o o = operation
                                          /\ IsEdge(b, o, a)
                                     /\ getInverseOperation(operation) = "~" \o operation
                                     /\ ~HasCandidates(b, getInverseOperation(operation))
        /\ \A operation \in declaredOperations \cup tags :
              getInverseOperation(getInverseOperation(operation)) = operation
                  <=> operation \in {"d", "g", "+", "-"}

\* a reversed tag has been followed and its inverse is no operation of the
\* solid reached
C16_Witness ==
    /\ CalledWith("truncated-tetrahedron", "~t")
    /\ lastCall.outcome = Returned("tetrahedron")
    /\ ~HasCandidates("T", getInverseOperation("~t"))

\* C18 as stated: every key of polyhedraGraph is a solid identifier, and so
\* is every candidate it lists.
C18_NoNulls ==
    \A i \in 1..Len(polyhedraGraph) :
        /\ polyhedraGraph[i].k \in ConwaySolids
        /\ \A j \in 1..Len(polyhedraGraph[i].v) :
              \A k \in 1..Len(polyhedraGraph[i].v[j].v.items) :
                  polyhedraGraph[i].v[j].v.items[k] \in ConwaySolids

----------------------------------------------------------------------------
(* Properties of the reducer *)

Applied == lastAction.action.type = "APPLY_OPERATION"

\* C4 as stated: an APPLY_OPERATION whose symbol is not a known operation
\* returns the state unchanged, whatever name and config it carries.
C4_UnknownIsNoOp ==
    (Applied /\ lastAction.action.operation \notin operations)
        => state = lastAction.before

\* C5 as stated: an APPLY_OPERATION with a known operation and an invalid
\* config changes neither the name nor the data of the state.
C5_InvalidIsNoOp ==
    (Applied /\ lastAction.action.operation \in operations
             /\ lastAction.action.config = "invalid")
        => /\ state.name = lastAction.before.name
           /\ state.data = lastAction.before.data

\* C17 as stated: the name of every reachable state is a valid solid name,
\* and after SET_POLYHEDRON with a valid name the data is the catalog
\* polyhedron of that name.
C17_ValidName ==
    /\ isValidSolid(state.name)
    /\ (lastAction.action.type = "SET_POLYHEDRON"
        /\ isValidSolid(lastAction.action.name))
          => /\ state.name = lastAction.action.name
             /\ state.data = PolyhedronGet(lastAction.action.name)

----------------------------------------------------------------------------
(* Properties of utils.ts *)

\* C15 as stated: for every non-empty array and every integer index the
\* position getCyclic reads is in [0, length) and equals index mod length, so
\* the result is an element of the array and never undefined.
C15_Cyclic ==
    cyclic.called
        => LET length == Len(cyclic.array)
           IN  /\ cyclic.position \in 0..(length - 1)
               /\ cyclic.position = cyclic.index % length
               /\ cyclic.element # UNDEF
               /\ cyclic.element = cyclic.array[(cyclic.index % length) + 1]

----------------------------------------------------------------------------
(* Properties of graph merging *)

\* the truthy targets of a value, in order
Targets(value) == Compact(value.items)

\* the targets declared for (source, operation) by the objects merged so far
DeclaredTargets(source, operation) ==
    Flatten([i \in 1..Len(declared) |->
                IF Has(declared[i], source)
                   /\ Has(Get(declared[i], source), operation)
                THEN Targets(Get(Get(declared[i], source), operation))
                ELSE <<>>])

\* C9 as stated: the merged entry of every (solid, operation) lists every
\* target declared for it, in declaration order.
C9_Accumulates ==
    \A source \in MergeSolids, operation \in MergeOperations :
        DeclaredTargets(source, operation) # <<>>
            => /\ Has(graph, source)
               /\ Has(Get(graph, source), operation)
               /\ Targets(Get(Get(graph, source), operation))
                     = DeclaredTargets(source, operation)

----------------------------------------------------------------------------
(* Properties of the clean-up routines *)

Referenced(p) == SeqToSet(Flatten(p.faces))
Position(p, index) == p.vertices[index + 1]

\* q is p with its unreferenced vertices gone and its faces re-indexed
WellFormedFrom(p, q) ==
    /\ numVertices(q) = Cardinality(Referenced(p))
    /\ Referenced(q) = 0..(numVertices(q) - 1)
    /\ Len(q.faces) = Len(p.faces)
    /\ \A f \in 1..Len(p.faces) :
          /\ Len(q.faces[f]) = Len(p.faces[f])
          /\ \A k \in 1..Len(p.faces[f]) :
                /\ q.faces[f][k] \in 0..(numVertices(q) - 1)
                /\ Position(q, q.faces[f][k]) = Position(p, p.faces[f][k])

\* three positions of p, in index order, the middle one within the tolerance
\* of both others, which are not within the tolerance of each other
NonTransitive(p) ==
    \E i, j, k \in 1..Len(p.vertices) :
        /\ i < j /\ j < k
        /\ equalsWithTolerance(p.vertices[i], p.vertices[j], PRECISION)
        /\ equalsWithTolerance(p.vertices[j], p.vertices[k], PRECISION)
        /\ ~equalsWithTolerance(p.vertices[i], p.vertices[k], PRECISION)

\* C7: deduplicating a deduplicated polyhedron changes neither its vertices
\* nor its faces.
C7_Idempotent ==
    pc = "deduplicated twice"
        => /\ out.vertices = deduplicateVertices(poly).vertices
           /\ out.faces = deduplicateVertices(poly).faces

C7_Witness ==
    /\ pc = "deduplicated twice"
    /\ NonTransitive(poly)
    /\ out.faces # <<>>
    /\ numVertices(out) < numVertices(poly)

\* C8: the result of removeExtraneousVertices, and of deduplicateVertices,
\* has exactly the referenced vertices, indexed 0..n-1 and all referenced,
\* each face position denoting the position it denoted before; after
\* deduplication every face has at least 3 distinct vertices.
C8_WellFormed ==
    /\ pc = "removed" => WellFormedFrom(poly, out)
    /\ pc = "deduplicated"
          => /\ WellFormedFrom(withFaces(poly, mergedFaces(poly)), out)
             /\ \A f \in 1..Len(out.faces) :
                   Cardinality(SeqToSet(out.faces[f])) >= 3

\* a kept vertex has been moved into a removed slot
C8_Witness ==
    /\ pc = "removed"
    /\ numVertices(out) < numVertices(poly)
    /\ \E f \in 1..Len(poly.faces) : out.faces[f] # poly.faces[f]

\* the (face, place) pairs of p
Places(p) ==
    UNION {{<<f, k>> : k \in 1..Len(p.faces[f])} : f \in 1..Len(p.faces)}

----------------------------------------------------------------------------
(* Properties of duplicateVertices *)

\* the faces of p that vertex v lies on
FacesAt(p, v) == {f \in 1..Len(p.faces) : v \in SeqToSet(p.faces[f])}

\* the vertex of the result that stands for vertex v on face f of p, read
\* off the rewritten face
DuplicateOf(f, v) == out.faces[f][CHOOSE k \in 1..Len(poly.faces[f]) : poly.faces[f][k] = v]

\* the edges of p, each with its two faces: <<v1, v2, f1, f2>>, where face
\* f1 has the side from v1 to v2 and face f2 the side from v2 to v1
EdgesWithFaces(p) ==
    {e \in {<<side[1], side[2], f1, f2>> :
                side \in usedSides(p), f1 \in 1..Len(p.faces), f2 \in 1..Len(p.faces)} :
        /\ e[1] < e[2]
        /\ inSet(<<e[1], e[2]>>, directedEdges(p.faces[e[3]]))
        /\ inSet(<<e[2], e[1]>>, directedEdges(p.faces[e[4]]))}

\* C12 as stated: a vertex on k faces gets exactly k duplicates at its
\* position, no two (face, vertex) incidences share a new vertex, and every
\* rewritten face references duplicates of its own vertices only.
C12_PrivateDuplicates ==
    pc = "duplicated"
        => /\ \A v \in SeqToSet(vertexIndices(poly)) :
                 Cardinality({i \in 1..Len(out.vertices) :
                                 out.vertices[i] = Position(poly, v)})
                     = Cardinality(FacesAt(poly, v))
           /\ \A x, y \in Places(poly) :
                 x # y => out.faces[x[1]][x[2]] # out.faces[y[1]][y[2]]
           /\ \A x \in Places(poly) :
                 /\ out.faces[x[1]][x[2]] \in 0..(numVertices(out) - 1)
                 /\ Position(out, out.faces[x[1]][x[2]])
                       = Position(poly, poly.faces[x[1]][x[2]])

\* the faces of the result added for the vertices, and for the edges, of poly
FigureFaces(q) == SubSeq(q.faces, Len(poly.faces) + 1, Len(poly.faces) + numVertices(poly))
BridgingFaces(q) ==
    SubSeq(q.faces, Len(poly.faces) + numVertices(poly) + 1, Len(q.faces))

\* the duplicates of the two ends of an edge on its two faces
EdgeDuplicates(e) ==
    {DuplicateOf(e[3], e[1]), DuplicateOf(e[3], e[2]),
     DuplicateOf(e[4], e[1]), DuplicateOf(e[4], e[2])}

\* every vertex of p lies on as many faces as the first one
SameFaceCounts(p) ==
    \A v \in SeqToSet(vertexIndices(p)) :
        Cardinality(FacesAt(p, v)) = Cardinality(FacesAt(p, 0))

====
